---- MODULE Spec2Model ----
(***************************************************************************)
(* Conway's Game of Life for the Commodore 64 (src/src/main.c).            *)
(*                                                                         *)
(* Two cell buffers with a one-cell border (buf0, buf1), swapped through   *)
(* the pointers current/next, one off-screen character buffer (screenBuf)  *)
(* and the memory-mapped screen.  The grid of the program is 40 x 25; the  *)
(* model keeps every index computation of the source and runs it on a      *)
(* WIDTH x HEIGHT grid small enough to enumerate.                          *)
(*                                                                         *)
(* Spec      the program: main(), the menus, the editor, the loop.         *)
(* SpecUnit  the functions of the engine applied to drawn buffers: the     *)
(*           border mirroring, the step, the swap and the preset stamping  *)
(*           with drawn anchors.                                           *)
(***************************************************************************)
EXTENDS Integers, Sequences, FiniteSets, TLC

\* ---------------------------------------------------------------- sizes
\* #define WIDTH 40 / HEIGHT 25, scaled down
WIDTH == 5
HEIGHT == 5
BWIDTH == WIDTH + 2
BHEIGHT == HEIGHT + 2

\* generations per behaviour, runs per behaviour, keys per editing session
MaxGen == 4
MaxRuns == 2
MaxKeys == 2

LIVE_CHAR == 81
DEAD_CHAR == 32

IDX(y, x) == y * BWIDTH + x

Cells == 0 .. (BHEIGHT * BWIDTH - 1)
ScreenCells == 0 .. (WIDTH * HEIGHT - 1)

\* unsigned char arithmetic
U8(n) == n % 256

\* ---------------------------------------------------------------- presets
P_BLOCK == << <<0,0>>, <<1,0>>, <<0,1>>, <<1,1>> >>
P_BLINKER == << <<0,0>>, <<1,0>>, <<2,0>> >>
P_GLIDER == << <<1,0>>, <<2,1>>, <<0,2>>, <<1,2>>, <<2,2>> >>
P_GGUN ==
  << <<0,4>>, <<1,4>>, <<0,5>>, <<1,5>>,
     <<10,4>>, <<10,5>>, <<10,6>>, <<11,3>>, <<11,7>>, <<12,2>>, <<12,8>>,
     <<13,2>>, <<13,8>>, <<14,5>>, <<15,3>>, <<15,7>>, <<16,4>>, <<16,5>>,
     <<16,6>>, <<17,5>>,
     <<20,2>>, <<20,3>>, <<20,4>>, <<21,2>>, <<21,3>>, <<21,4>>, <<22,1>>,
     <<22,5>>, <<24,0>>, <<24,1>>, <<24,5>>, <<24,6>>,
     <<34,2>>, <<34,3>>, <<35,2>>, <<35,3>> >>

\* ---------------------------------------------------------------- rule tables
\* C arrays are indexed from 0, sequences from 1: table[n] is Seq[n + 1]
next_from_dead_mut == <<0,0,1,1,0,0,0,0,0>>

next_from_dead == <<0,0,0,1,0,0,0,0,0>>
next_from_alive_mut == <<0,0,1,0,0,0,0,0,0>>

next_from_alive == <<0,0,1,1,0,0,0,0,0>>

\* buf0, buf1     the two bordered cell buffers
\* current, next  the two pointers, as the name of the buffer pointed to
\* screenBuf      the off-screen frame, screen the visible character memory
\* pc             the position of the program
\* kb             a key is waiting in the keyboard buffer
\* cx, cy         the cursor of the editor
\* oob            a rule table was indexed past its 9 entries
\* gen, run, keys count generations of the run, runs, and editor keys
\* old, seed0     the logical grid at the start of the cycle and of the run
\* stamp          the arguments of the last draw_preset
\* phases         the steps of the simulation loop taken in the current cycle
VARIABLES buf0, buf1, current, next, screenBuf, screen, pc, kb, gen, run,
          cx, cy, keys, oob, old, seed0, stamp, phases

vars == <<buf0, buf1, current, next, screenBuf, screen, pc, kb, gen, run,
          cx, cy, keys, oob, old, seed0, stamp, phases>>

\* the buffer a pointer designates
Buf(p) == IF p = "buf0" THEN buf0 ELSE buf1

\* the logical W x H grid held in the interior of a bordered buffer
Logical(b) == [k \in ScreenCells |-> b[IDX((k \div WIDTH) + 1, (k % WIDTH) + 1)]]

Glyph(v) == IF v # 0 THEN LIVE_CHAR ELSE DEAD_CHAR

\* ---------------------------------------------------------------- update_borders
\* memcpy(b + dst, b + src, n) on one buffer, regions not overlapping
MemcpyRow(b, dst, src, n) ==
  [i \in Cells |-> IF i >= dst /\ i < dst + n THEN b[src + (i - dst)] ELSE b[i]]

\* (the two copies of a row made the wrong way round: edge <= border)
RECURSIVE HWrap_rev(_, _)
HWrap_rev(b, y) ==
  IF y > HEIGHT THEN b
  ELSE LET b1 == [b EXCEPT ![IDX(y, WIDTH)] = b[IDX(y, 0)]]
           b2 == [b1 EXCEPT ![IDX(y, 1)] = b1[IDX(y, BWIDTH - 1)]]
       IN HWrap_rev(b2, y + 1)

\* (no horizontal wrap: the border columns are left as they are)
HWrap_mut(b, y) == b

\* the for loop over the inner rows y .. HEIGHT
RECURSIVE HWrap(_, _)
HWrap(b, y) ==
  IF y > HEIGHT THEN b
  ELSE LET b1 == [b EXCEPT ![IDX(y, 0)] = b[IDX(y, WIDTH)]]
           b2 == [b1 EXCEPT ![IDX(y, BWIDTH - 1)] = b1[IDX(y, 1)]]
       IN HWrap(b2, y + 1)

\* (the row copies made before the columns are fixed)
update_borders_mut(b) ==
  LET t == MemcpyRow(b, IDX(0, 0), IDX(HEIGHT, 0), BWIDTH)
      u == MemcpyRow(t, IDX(BHEIGHT - 1, 0), IDX(1, 0), BWIDTH)
  IN HWrap(u, 1)

\* (no vertical wrap: the border rows are left as they are)
update_borders_novert(b) == HWrap(b, 1)

update_borders(b) ==
  LET h == HWrap(b, 1)
      t == MemcpyRow(h, IDX(0, 0), IDX(HEIGHT, 0), BWIDTH)
  IN MemcpyRow(t, IDX(BHEIGHT - 1, 0), IDX(1, 0), BWIDTH)

\* ---------------------------------------------------------------- calc_next_gen
\* (the sum with the cell itself counted in)
neighbours_mut(cur, base, x) ==
  U8(cur[base - BWIDTH + x - 1] + cur[base - BWIDTH + x] + cur[base - BWIDTH + x + 1] +
     cur[base + x - 1] + cur[base + x] + cur[base + x + 1] +
     cur[base + BWIDTH + x - 1] + cur[base + BWIDTH + x] + cur[base + BWIDTH + x + 1])

\* the 8-bit neighbour sum of the cell at base + x
neighbours(cur, base, x) ==
  U8(cur[base - BWIDTH + x - 1] + cur[base - BWIDTH + x] + cur[base - BWIDTH + x + 1] +
     cur[base + x - 1] + cur[base + x + 1] +
     cur[base + BWIDTH + x - 1] + cur[base + BWIDTH + x] + cur[base + BWIDTH + x + 1])

\* v of one cell.  An index past the 9 entries reads outside the table:
\* CellOob reports it, and the value read there is taken as 0.
CellOob(cur, base, x) == neighbours(cur, base, x) > 8

CellNext(cur, base, x) ==
  LET n == neighbours(cur, base, x)
      alive == cur[base + x]
  IN IF n > 8 THEN 0
     ELSE IF alive # 0 THEN next_from_alive[n + 1] ELSE next_from_dead[n + 1]

\* (the frame built from the cell read, not from the cell written)
RECURSIVE CalcLoop_mut(_, _, _)
CalcLoop_mut(cur, st, k) ==
  IF k >= WIDTH * HEIGHT THEN st
  ELSE LET y == (k \div WIDTH) + 1
           x == (k % WIDTH) + 1
           srow == (y - 1) * WIDTH
           base == y * BWIDTH
           v == CellNext(cur, base, x)
       IN CalcLoop_mut(cur,
                   [nxt |-> [st.nxt EXCEPT ![base + x] = v],
                    sb  |-> [st.sb EXCEPT ![srow + (x - 1)] = Glyph(cur[base + x])],
                    oob |-> st.oob \/ CellOob(cur, base, x)],
                   k + 1)

\* (the neighbours read back from the buffer being written)
CalcCell_inplace(cur, st, k) ==
  LET y == (k \div WIDTH) + 1
      x == (k % WIDTH) + 1
      srow == (y - 1) * WIDTH
      base == y * BWIDTH
      n == neighbours(st.nxt, base, x)
      v == IF n > 8 THEN 0
           ELSE IF cur[base + x] # 0 THEN next_from_alive[n + 1]
           ELSE next_from_dead[n + 1]
  IN [nxt |-> [st.nxt EXCEPT ![base + x] = v],
      sb  |-> [st.sb EXCEPT ![srow + (x - 1)] = Glyph(v)],
      oob |-> st.oob \/ n > 8]

\* The body of the inner loop for the cell k = (y-1) * WIDTH + (x-1); st holds
\* the next buffer and screenBuf as written so far.
CalcCell(cur, st, k) ==
  LET y == (k \div WIDTH) + 1
      x == (k % WIDTH) + 1
      srow == (y - 1) * WIDTH
      base == y * BWIDTH
      v == CellNext(cur, base, x)
  IN [nxt |-> [st.nxt EXCEPT ![base + x] = v],
      sb  |-> [st.sb EXCEPT ![srow + (x - 1)] = Glyph(v)],
      oob |-> st.oob \/ CellOob(cur, base, x)]

\* The two nested loops, row-major over k.
RECURSIVE CalcLoop(_, _, _)
CalcLoop(cur, st, k) ==
  IF k >= WIDTH * HEIGHT THEN st
  ELSE CalcLoop(cur, CalcCell(cur, st, k), k + 1)

\* The same body run over the cells in the order given by the sequence ord.
RECURSIVE CalcOrder(_, _, _, _)
CalcOrder(cur, st, ord, i) ==
  IF i > Len(ord) THEN st
  ELSE CalcOrder(cur, CalcCell(cur, st, ord[i]), ord, i + 1)

calc_next_gen(cur, nxt, sb) ==
  CalcLoop(cur, [nxt |-> nxt, sb |-> sb, oob |-> FALSE], 0)

\* ---------------------------------------------------------------- screen helpers
\* build_screen_from_current: the glyph of every interior cell
build_screen_from_current(cur) ==
  [k \in ScreenCells |-> Glyph(cur[IDX((k \div WIDTH) + 1, (k % WIDTH) + 1)])]

\* update_display: memcpy(screen, screenBuf, WIDTH * HEIGHT)
update_display(sb) == [k \in ScreenCells |-> sb[k]]

\* memset(current, 0, BHEIGHT * BWIDTH)
ZeroBuf == [i \in Cells |-> 0]

\* the screenBuf clear_grid leaves: every row set to DEAD_CHAR
BlankScreen == [k \in ScreenCells |-> DEAD_CHAR]

\* ---------------------------------------------------------------- draw_preset
\* (the range test against the bordered size instead of the inner size)
RECURSIVE PresetLoop_mut(_, _, _, _, _)
PresetLoop_mut(st, y0, x0, pts, i) ==
  IF i > Len(pts) THEN st
  ELSE LET y == y0 + pts[i][2]
           x == x0 + pts[i][1]
       IN IF y >= 1 /\ y <= HEIGHT /\ x >= 0 /\ x < BWIDTH
          THEN PresetLoop_mut([cur |-> [st.cur EXCEPT ![IDX(y, x)] = 1],
                           sb  |-> [st.sb EXCEPT ![(y - 1) * WIDTH + (x - 1)] = LIVE_CHAR]],
                          y0, x0, pts, i + 1)
          ELSE PresetLoop_mut(st, y0, x0, pts, i + 1)

\* the loop over the points i .. n of pts; st holds current and screenBuf
RECURSIVE PresetLoop(_, _, _, _, _)
PresetLoop(st, y0, x0, pts, i) ==
  IF i > Len(pts) THEN st
  ELSE LET y == y0 + pts[i][2]
           x == x0 + pts[i][1]
       IN IF y >= 1 /\ y <= HEIGHT /\ x >= 1 /\ x <= WIDTH
          THEN PresetLoop([cur |-> [st.cur EXCEPT ![IDX(y, x)] = 1],
                           sb  |-> [st.sb EXCEPT ![(y - 1) * WIDTH + (x - 1)] = LIVE_CHAR]],
                          y0, x0, pts, i + 1)
          ELSE PresetLoop(st, y0, x0, pts, i + 1)

draw_preset(cur, sb, y0, x0, pts) ==
  PresetLoop([cur |-> cur, sb |-> sb], y0, x0, pts, 1)

PresetPts(name) ==
  CASE name = "block" -> P_BLOCK
    [] name = "blinker" -> P_BLINKER
    [] name = "glider" -> P_GLIDER
    [] name = "ggun" -> P_GGUN

PresetNames == {"block", "blinker", "glider", "ggun"}

\* ================================================================ SpecUnit
\* Drawn inputs.  A buffer is an interior grid laid over stale contents.
Stale(k) ==
  CASE k = 0 -> [i \in Cells |-> 0]
    [] k = 1 -> [i \in Cells |-> 1]
    [] k = 2 -> [i \in Cells |-> i % 2]
    [] k = 3 -> [i \in Cells |-> IF i % 3 = 0 THEN 1 ELSE 0]

StaleScreen(k) ==
  [i \in ScreenCells |-> IF Stale(k)[i] = 0 THEN LIVE_CHAR ELSE DEAD_CHAR]

IsInterior(i) ==
  /\ (i \div BWIDTH) >= 1 /\ (i \div BWIDTH) <= HEIGHT
  /\ (i % BWIDTH) >= 1 /\ (i % BWIDTH) <= WIDTH

\* interior from the logical grid g, every border cell from the stale buffer s
ToBuf(g, s) ==
  [i \in Cells |-> IF IsInterior(i)
                   THEN g[((i \div BWIDTH) - 1) * WIDTH + ((i % BWIDTH) - 1)]
                   ELSE s[i]]

\* a 3 x 3 patch of arbitrary cells, top-left at (ax, ay), wrapped on the torus
PatchGrid(ax, ay, bits) ==
  [k \in ScreenCells |->
     LET i == ((k % WIDTH) - ax + WIDTH) % WIDTH
         j == ((k \div WIDTH) - ay + HEIGHT) % HEIGHT
     IN IF i < 3 /\ j < 3 THEN bits[3 * j + i] ELSE 0]

PatchAnchors ==
  {<<1, 1>>, <<WIDTH - 1, 1>>, <<1, HEIGHT - 1>>, <<WIDTH - 1, HEIGHT - 1>>}

\* the points of a pattern anchored at logical (ax, ay), wrapped on the torus
TorusPattern(pts, ax, ay) ==
  [k \in ScreenCells |->
     IF \E i \in 1 .. Len(pts) :
          /\ k % WIDTH = (ax + pts[i][1]) % WIDTH
          /\ k \div WIDTH = (ay + pts[i][2]) % HEIGHT
     THEN 1 ELSE 0]

Block(ax, ay) == TorusPattern(P_BLOCK, ax, ay)
\* the horizontal blinker centred on (x, y), and the vertical one
BlinkerH(x, y) == TorusPattern(P_BLINKER, x + WIDTH - 1, y)
BlinkerV(x, y) == TorusPattern(<< <<0,0>>, <<0,1>>, <<0,2>> >>, x, y + HEIGHT - 1)
Glider(ax, ay) == TorusPattern(P_GLIDER, ax, ay)

PatternGrids ==
  {Block(a, b) : a \in 0 .. WIDTH - 1, b \in 0 .. HEIGHT - 1}
    \cup {BlinkerH(a, b) : a \in 0 .. WIDTH - 1, b \in 0 .. HEIGHT - 1}
    \cup {Glider(a, b) : a \in 0 .. WIDTH - 1, b \in 0 .. HEIGHT - 1}

PatchGrids ==
  {PatchGrid(a[1], a[2], bits) : a \in PatchAnchors, bits \in [0 .. 8 -> {0, 1}]}

UnitGrids == PatternGrids \cup PatchGrids \cup {[i \in ScreenCells |-> 1]}

\* anchors of draw_preset, physical coordinates, partly or wholly off the grid
StampYs == (0 - 9) .. (HEIGHT + 2)
StampXs == (0 - 36) .. (WIDTH + 2)

\* the step starts from every drawn grid, the stamping from one full grid
InitUnit ==
  /\ pc \in {"u_borders", "u_clear"}
  /\ \E g \in UnitGrids, k \in 0 .. 3 :
       /\ pc = "u_clear" => g = [i \in ScreenCells |-> 1]
       /\ buf0 = ToBuf(g, Stale(k))
       /\ buf1 = Stale((k + 1) % 4)
       /\ screenBuf = StaleScreen(k)
       /\ screen = StaleScreen((k + 2) % 4)
       /\ old = g
       /\ seed0 = g
  /\ current = "buf0"
  /\ next = "buf1"
  /\ kb = FALSE
  /\ gen = 0
  /\ run = 0
  /\ cx = WIDTH \div 2
  /\ cy = HEIGHT \div 2
  /\ keys = 0
  /\ oob = FALSE
  /\ stamp = <<0, 0, "none">>
  /\ phases = <<>>

\* update_borders() on the drawn buffer
UnitBorders ==
  /\ pc = "u_borders"
  /\ buf0' = IF current = "buf0" THEN update_borders(buf0) ELSE buf0
  /\ buf1' = IF current = "buf1" THEN update_borders(buf1) ELSE buf1
  /\ pc' = "u_calc"
  /\ UNCHANGED <<current, next, screenBuf, screen, kb, gen, run, cx, cy, keys,
                 oob, old, seed0, stamp, phases>>

\* calc_next_gen()
UnitCalc ==
  /\ pc = "u_calc"
  /\ LET r == calc_next_gen(Buf(current), Buf(next), screenBuf)
     IN /\ buf0' = IF next = "buf0" THEN r.nxt ELSE buf0
        /\ buf1' = IF next = "buf1" THEN r.nxt ELSE buf1
        /\ screenBuf' = r.sb
        /\ oob' = (oob \/ r.oob)
  /\ pc' = "u_swap"
  /\ UNCHANGED <<current, next, screen, kb, gen, run, cx, cy, keys, old, seed0, stamp, phases>>

\* the swap of the two pointers, and the next generation while gen < MaxGen
UnitSwap ==
  /\ pc = "u_swap"
  /\ current' = next
  /\ next' = current
  /\ gen' = gen + 1
  /\ old' = Logical(Buf(next))
  /\ pc' = IF gen + 1 < MaxGen THEN "u_borders" ELSE "u_done"
  /\ UNCHANGED <<buf0, buf1, screenBuf, screen, kb, run, cx, cy, keys, oob, seed0, stamp, phases>>

\* clear_grid()
UnitClear ==
  /\ pc = "u_clear"
  /\ buf0' = IF current = "buf0" THEN ZeroBuf ELSE buf0
  /\ buf1' = IF current = "buf1" THEN ZeroBuf ELSE buf1
  /\ screenBuf' = BlankScreen
  /\ screen' = update_display(BlankScreen)
  /\ pc' = "u_stamp"
  /\ UNCHANGED <<current, next, kb, gen, run, cx, cy, keys, oob, old, seed0, stamp, phases>>

\* draw_preset(y0, x0, pts, n) with a drawn anchor and pattern
UnitStamp ==
  /\ pc = "u_stamp"
  /\ \E y0 \in StampYs, x0 \in StampXs, p \in PresetNames :
       LET r == draw_preset(Buf(current), screenBuf, y0, x0, PresetPts(p))
       IN /\ buf0' = IF current = "buf0" THEN r.cur ELSE buf0
          /\ buf1' = IF current = "buf1" THEN r.cur ELSE buf1
          /\ screenBuf' = r.sb
          /\ screen' = update_display(r.sb)
          /\ stamp' = <<y0, x0, p>>
  /\ pc' = "u_stamped"
  /\ UNCHANGED <<current, next, kb, gen, run, cx, cy, keys, oob, old, seed0, phases>>

NextUnit == UnitBorders \/ UnitCalc \/ UnitSwap \/ UnitClear \/ UnitStamp

SpecUnit == InitUnit /\ [][NextUnit]_vars


\* ================================================================ Spec
\* The program.  pc is "menu" at the getch of show_main_menu, "presets" at the
\* getch of show_presets_menu, "editor" at the top of the while loop of
\* draw_editor, "prepare" at the body of the while loop of main, "display",
\* "borders", "calc", "swap", "poll" at the five statements of the
\* simulation loop, and "exit" after the goodbye.  Text printed on the screen
\* by the menus is not kept: the program never reads it back.

\* the grids rand() & 1 is drawn from
SeedGrids ==
  {Glider(WIDTH - 2, HEIGHT - 2), [k \in ScreenCells |-> (k + 1) % 2],
   [k \in ScreenCells |-> 1]}

\* clrscr()
ClearedScreen == [k \in ScreenCells |-> DEAD_CHAR]

Init ==
  /\ buf0 = ZeroBuf
  /\ buf1 = ZeroBuf
  /\ current = "buf0"
  /\ next = "buf1"
  /\ screenBuf = [k \in ScreenCells |-> 0]
  /\ screen = ClearedScreen
  /\ pc = "menu"
  /\ kb = FALSE
  /\ gen = 0
  /\ run = 0
  /\ cx = WIDTH \div 2
  /\ cy = HEIGHT \div 2
  /\ keys = 0
  /\ oob = FALSE
  /\ old = [k \in ScreenCells |-> 0]
  /\ seed0 = [k \in ScreenCells |-> 0]
  /\ stamp = <<0, 0, "none">>
  /\ phases = <<>>

\* the current buffer replaced by b
SetCurrent(b) ==
  /\ buf0' = IF current = "buf0" THEN b ELSE buf0
  /\ buf1' = IF current = "buf1" THEN b ELSE buf1

\* the next buffer replaced by b
SetNext(b) ==
  /\ buf0' = IF next = "buf0" THEN b ELSE buf0
  /\ buf1' = IF next = "buf1" THEN b ELSE buf1

\* a run may start while runs and generations are left
MayStart == run < MaxRuns /\ gen < MaxGen

\* show_main_menu, key '1': initialize_grid_random(), the cells drawn
MenuRandom ==
  /\ pc = "menu"
  /\ MayStart
  /\ \E g \in SeedGrids :
       /\ SetCurrent(ToBuf(g, ZeroBuf))
       /\ screenBuf' = [k \in ScreenCells |-> Glyph(g[k])]
  /\ pc' = "prepare"
  /\ UNCHANGED <<current, next, screen, kb, gen, run, cx, cy, keys, oob, old,
                 seed0, stamp, phases>>

\* show_main_menu, key '2': clear_grid(), then draw_editor() up to its loop
MenuDraw ==
  /\ pc = "menu"
  /\ MayStart
  /\ SetCurrent(ZeroBuf)
  /\ screenBuf' = build_screen_from_current(ZeroBuf)
  /\ screen' = update_display(build_screen_from_current(ZeroBuf))
  /\ cx' = WIDTH \div 2
  /\ cy' = HEIGHT \div 2
  /\ keys' = 0
  /\ pc' = "editor"
  /\ UNCHANGED <<current, next, kb, gen, run, oob, old, seed0, stamp, phases>>

\* show_main_menu, key '3': show_presets_menu() up to its getch
MenuPresets ==
  /\ pc = "menu"
  /\ MayStart
  /\ screen' = ClearedScreen
  /\ pc' = "presets"
  /\ UNCHANGED <<buf0, buf1, current, next, screenBuf, kb, gen, run, cx, cy,
                 keys, oob, old, seed0, stamp, phases>>

\* show_main_menu, key '4': leave the loop of main, say goodbye
MenuQuit ==
  /\ pc = "menu"
  /\ screen' = ClearedScreen
  /\ pc' = "exit"
  /\ UNCHANGED <<buf0, buf1, current, next, screenBuf, kb, gen, run, cx, cy,
                 keys, oob, old, seed0, stamp, phases>>

\* show_main_menu, any other key: wait for the next one
MenuOther ==
  /\ pc = "menu"
  /\ UNCHANGED vars

\* the anchor show_presets_menu gives each pattern
PresetAnchor(name) ==
  LET pcx == WIDTH \div 2
      pcy == HEIGHT \div 2
  IN CASE name = "block" -> <<pcy, pcx>>
       [] name = "blinker" -> <<pcy, pcx - 1>>
       [] name = "glider" -> <<pcy - 1, pcx - 1>>
       [] name = "ggun" -> <<3, 2>>

\* show_presets_menu, keys b n g u: clear_grid(), draw_preset(), then
\* build_screen_from_current() and update_display()
PresetsStamp ==
  /\ pc = "presets"
  /\ \E p \in PresetNames :
       LET a == PresetAnchor(p)
           r == draw_preset(ZeroBuf, BlankScreen, a[1], a[2], PresetPts(p))
       IN /\ SetCurrent(r.cur)
          /\ screenBuf' = build_screen_from_current(r.cur)
          /\ screen' = update_display(build_screen_from_current(r.cur))
          /\ stamp' = <<a[1], a[2], p>>
  /\ pc' = "prepare"
  /\ UNCHANGED <<current, next, kb, gen, run, cx, cy, keys, oob, old, seed0, phases>>

\* show_presets_menu, any other key: the grid is left as it is
PresetsCancel ==
  /\ pc = "presets"
  /\ screenBuf' = build_screen_from_current(Buf(current))
  /\ screen' = update_display(build_screen_from_current(Buf(current)))
  /\ pc' = "prepare"
  /\ UNCHANGED <<buf0, buf1, current, next, kb, gen, run, cx, cy, keys, oob,
                 old, seed0, stamp, phases>>

\* ---------------------------------------------------------------- draw_editor
\* One pass of the while loop: the cursor cell is shown reversed while getch
\* waits and restored before the key is handled.
EdPos == (cy - 1) * WIDTH + (cx - 1)

\* (the toggle as an increment)
Xor1_inc(v) == U8(v + 1)

\* v ^ 1 on an unsigned char
Xor1(v) == IF v % 2 = 0 THEN v + 1 ELSE v - 1

\* ' ': toggle the cell under the cursor
EditToggle ==
  /\ pc = "editor" /\ keys < MaxKeys
  /\ LET v == Xor1(Buf(current)[IDX(cy, cx)])
     IN /\ SetCurrent([Buf(current) EXCEPT ![IDX(cy, cx)] = v])
        /\ screenBuf' = [screenBuf EXCEPT ![EdPos] = Glyph(v)]
        /\ screen' = [screen EXCEPT ![EdPos] = Glyph(v)]
  /\ keys' = keys + 1
  /\ UNCHANGED <<current, next, pc, kb, gen, run, cx, cy, oob, old, seed0,
                 stamp, phases>>

\* 'x': clear_grid()
EditClearAll ==
  /\ pc = "editor" /\ keys < MaxKeys
  /\ SetCurrent(ZeroBuf)
  /\ screenBuf' = BlankScreen
  /\ screen' = update_display(BlankScreen)
  /\ keys' = keys + 1
  /\ UNCHANGED <<current, next, pc, kb, gen, run, cx, cy, oob, old, seed0,
                 stamp, phases>>

\* 'c': clear the row of the cursor
EditClearRow ==
  /\ pc = "editor" /\ keys < MaxKeys
  /\ SetCurrent([i \in Cells |->
                   IF i >= IDX(cy, 1) /\ i <= IDX(cy, WIDTH) THEN 0
                   ELSE Buf(current)[i]])
  /\ LET sb == [k \in ScreenCells |->
                  IF k >= (cy - 1) * WIDTH /\ k < (cy - 1) * WIDTH + WIDTH
                  THEN DEAD_CHAR ELSE screenBuf[k]]
     IN /\ screenBuf' = sb
        /\ screen' = [k \in ScreenCells |->
                        IF k >= (cy - 1) * WIDTH /\ k < (cy - 1) * WIDTH + WIDTH
                        THEN sb[k] ELSE screen[k]]
  /\ keys' = keys + 1
  /\ UNCHANGED <<current, next, pc, kb, gen, run, cx, cy, oob, old, seed0,
                 stamp, phases>>

\* (the wrap tested one column and one row too late)
EditMove_mut ==
  /\ pc = "editor" /\ keys < MaxKeys
  /\ \E k \in {"up", "down", "left", "right"} :
       /\ cy' = CASE k = "up" -> (IF cy > 0 THEN cy - 1 ELSE HEIGHT)
                  [] k = "down" -> (IF cy < HEIGHT THEN cy + 1 ELSE 1)
                  [] OTHER -> cy
       /\ cx' = CASE k = "left" -> (IF cx > 0 THEN cx - 1 ELSE WIDTH)
                  [] k = "right" -> (IF cx < WIDTH THEN cx + 1 ELSE 1)
                  [] OTHER -> cx
  /\ keys' = keys + 1
  /\ UNCHANGED <<buf0, buf1, current, next, screenBuf, screen, pc, kb, gen,
                 run, oob, old, seed0, stamp, phases>>

\* the four cursor keys
EditMove ==
  /\ pc = "editor" /\ keys < MaxKeys
  /\ \E k \in {"up", "down", "left", "right"} :
       /\ cy' = CASE k = "up" -> (IF cy > 1 THEN cy - 1 ELSE HEIGHT)
                  [] k = "down" -> (IF cy < HEIGHT THEN cy + 1 ELSE 1)
                  [] OTHER -> cy
       /\ cx' = CASE k = "left" -> (IF cx > 1 THEN cx - 1 ELSE WIDTH)
                  [] k = "right" -> (IF cx < WIDTH THEN cx + 1 ELSE 1)
                  [] OTHER -> cx
  /\ keys' = keys + 1
  /\ UNCHANGED <<buf0, buf1, current, next, screenBuf, screen, pc, kb, gen,
                 run, oob, old, seed0, stamp, phases>>

\* any other key
EditOther ==
  /\ pc = "editor" /\ keys < MaxKeys
  /\ keys' = keys + 1
  /\ UNCHANGED <<buf0, buf1, current, next, screenBuf, screen, pc, kb, gen,
                 run, cx, cy, oob, old, seed0, stamp, phases>>

\* ENTER: build_screen_from_current(), update_display(), return; the cursor
\* and the key count are locals of draw_editor and end with it
EditEnter ==
  /\ pc = "editor"
  /\ screenBuf' = build_screen_from_current(Buf(current))
  /\ screen' = update_display(build_screen_from_current(Buf(current)))
  /\ cx' = WIDTH \div 2
  /\ cy' = HEIGHT \div 2
  /\ keys' = 0
  /\ pc' = "prepare"
  /\ UNCHANGED <<buf0, buf1, current, next, kb, gen, run, oob, old, seed0,
                 stamp, phases>>

\* ---------------------------------------------------------------- main
\* the body of while (show_main_menu()) up to the simulation loop
Prepare ==
  /\ pc = "prepare"
  /\ screenBuf' = build_screen_from_current(Buf(current))
  /\ screen' = update_display(build_screen_from_current(Buf(current)))
  /\ run' = run + 1
  /\ old' = Logical(Buf(current))
  /\ seed0' = Logical(Buf(current))
  /\ phases' = <<>>
  /\ pc' = "display"
  /\ UNCHANGED <<buf0, buf1, current, next, kb, gen, cx, cy, keys, oob, stamp>>

\* (the key polled at the top of the cycle: while (!kbhit()) { ... })
Display_mut ==
  /\ pc = "display"
  /\ IF kb
     THEN /\ kb' = FALSE
          /\ screen' = ClearedScreen
          /\ phases' = Append(phases, "poll")
          /\ pc' = "menu"
     ELSE /\ screen' = update_display(screenBuf)
          /\ phases' = Append(phases, "display")
          /\ pc' = "borders"
          /\ kb' = kb
  /\ UNCHANGED <<buf0, buf1, current, next, screenBuf, gen, run, cx, cy,
                 keys, oob, old, seed0, stamp>>

\* update_display()
Display ==
  /\ pc = "display"
  /\ screen' = update_display(screenBuf)
  /\ phases' = Append(phases, "display")
  /\ pc' = "borders"
  /\ UNCHANGED <<buf0, buf1, current, next, screenBuf, kb, gen, run, cx, cy,
                 keys, oob, old, seed0, stamp>>

\* (the borders of the other buffer mirrored)
Borders_mut ==
  /\ pc = "borders"
  /\ SetNext(update_borders(Buf(next)))
  /\ phases' = Append(phases, "borders")
  /\ pc' = "calc"
  /\ UNCHANGED <<current, next, screenBuf, screen, kb, gen, run, cx, cy, keys,
                 oob, old, seed0, stamp>>

\* update_borders()
Borders ==
  /\ pc = "borders"
  /\ SetCurrent(update_borders(Buf(current)))
  /\ phases' = Append(phases, "borders")
  /\ pc' = "calc"
  /\ UNCHANGED <<current, next, screenBuf, screen, kb, gen, run, cx, cy, keys,
                 oob, old, seed0, stamp>>

\* calc_next_gen()
Calc ==
  /\ pc = "calc"
  /\ LET r == calc_next_gen(Buf(current), Buf(next), screenBuf)
     IN /\ SetNext(r.nxt)
        /\ screenBuf' = r.sb
        /\ oob' = (oob \/ r.oob)
  /\ phases' = Append(phases, "calc")
  /\ pc' = "swap"
  /\ UNCHANGED <<current, next, screen, kb, gen, run, cx, cy, keys, old,
                 seed0, stamp>>

\* (the exchange without the temporary: current = next; next = current;)
Swap_alias ==
  /\ pc = "swap"
  /\ current' = next
  /\ next' = next
  /\ gen' = gen + 1
  /\ old' = Logical(Buf(next))
  /\ phases' = Append(phases, "swap")
  /\ pc' = "poll"
  /\ UNCHANGED <<buf0, buf1, screenBuf, screen, kb, run, cx, cy, keys, oob,
                 seed0, stamp>>

\* (the pointers left as they are)
Swap_mut ==
  /\ pc = "swap"
  /\ gen' = gen + 1
  /\ old' = Logical(Buf(current))
  /\ phases' = Append(phases, "swap")
  /\ pc' = "poll"
  /\ UNCHANGED <<buf0, buf1, current, next, screenBuf, screen, kb, run, cx, cy,
                 keys, oob, seed0, stamp>>

\* { tmp = current; current = next; next = tmp; }
Swap ==
  /\ pc = "swap"
  /\ current' = next
  /\ next' = current
  /\ gen' = gen + 1
  /\ old' = Logical(Buf(next))
  /\ phases' = Append(phases, "swap")
  /\ pc' = "poll"
  /\ UNCHANGED <<buf0, buf1, screenBuf, screen, kb, run, cx, cy, keys, oob,
                 seed0, stamp>>

\* (the stop that hands back the buffer the last step read)
PollStop_mut ==
  /\ pc = "poll"
  /\ kb
  /\ kb' = FALSE
  /\ current' = next
  /\ next' = current
  /\ screen' = ClearedScreen
  /\ phases' = Append(phases, "poll")
  /\ pc' = "menu"
  /\ UNCHANGED <<buf0, buf1, screenBuf, gen, run, cx, cy, keys,
                 oob, old, seed0, stamp>>

\* if (kbhit()) { getch(); break; } with a key waiting: back to
\* show_main_menu, which clears the screen
PollStop ==
  /\ pc = "poll"
  /\ kb
  /\ kb' = FALSE
  /\ screen' = ClearedScreen
  /\ phases' = Append(phases, "poll")
  /\ pc' = "menu"
  /\ UNCHANGED <<buf0, buf1, current, next, screenBuf, gen, run, cx, cy, keys,
                 oob, old, seed0, stamp>>

\* (the next cycle started whether or not a key is waiting)
PollGo_mut ==
  /\ pc = "poll"
  /\ gen < MaxGen
  /\ phases' = <<>>
  /\ pc' = "display"
  /\ UNCHANGED <<buf0, buf1, current, next, screenBuf, screen, kb, gen, run,
                 cx, cy, keys, oob, old, seed0, stamp>>

\* if (kbhit()) with no key waiting: the next cycle
PollGo ==
  /\ pc = "poll"
  /\ ~kb
  /\ gen < MaxGen
  /\ phases' = <<>>
  /\ pc' = "display"
  /\ UNCHANGED <<buf0, buf1, current, next, screenBuf, screen, kb, gen, run,
                 cx, cy, keys, oob, old, seed0, stamp>>

\* the user presses a key while the simulation is being set up or runs
KeyPress ==
  /\ pc \in {"prepare", "display", "borders", "calc", "swap", "poll"}
  /\ ~kb
  /\ kb' = TRUE
  /\ UNCHANGED <<buf0, buf1, current, next, screenBuf, screen, pc, gen, run,
                 cx, cy, keys, oob, old, seed0, stamp, phases>>

Next ==
  \/ MenuRandom \/ MenuDraw \/ MenuPresets \/ MenuQuit \/ MenuOther
  \/ PresetsStamp \/ PresetsCancel
  \/ EditToggle \/ EditClearAll \/ EditClearRow \/ EditMove \/ EditOther
  \/ EditEnter
  \/ Prepare \/ Display \/ Borders \/ Calc \/ Swap \/ PollStop \/ PollGo
  \/ KeyPress

Spec == Init /\ [][Next]_vars

\* The program is sequential: once control is at a statement of main's loop
\* the statement runs.  Nothing is assumed of the user: a key may never come.
\* The statements of the loop; at most one of them is enabled at a time.
LoopStep ==
  Prepare \/ Display \/ Borders \/ Calc \/ Swap \/ PollStop \/ PollGo

\* control is at a statement of the loop that can run
LoopPending ==
  \/ pc \in {"prepare", "display", "borders", "calc", "swap"}
  \/ pc = "poll" /\ (kb \/ gen < MaxGen)

\* where control goes from there: the flow of control of LoopStep alone
LoopAdvance ==
  /\ LoopPending
  /\ pc' = CASE pc = "prepare" -> "display"
             [] pc = "display" -> "borders"
             [] pc = "borders" -> "calc"
             [] pc = "calc" -> "swap"
             [] pc = "swap" -> "poll"
             [] pc = "poll" -> (IF kb THEN "menu" ELSE "display")

SpecFair == Spec /\ WF_pc(LoopAdvance)

\* ---------------------------------------------------------------- draw_editor
\* The editor on its own, at the top of its while loop after any number of
\* keys: the cursor anywhere on the grid, 'current' any of EditGrids with the
\* border clear_grid() left, the display showing it, and the other buffer as
\* a run before left it.
EditGrids ==
  {[k \in ScreenCells |-> 0], [k \in ScreenCells |-> 1],
   [k \in ScreenCells |-> (k + 1) % 2], Glider(0, 0)}

InitEdit ==
  /\ pc = "editor"
  /\ cx \in 1 .. WIDTH /\ cy \in 1 .. HEIGHT
  /\ \E g \in EditGrids, r \in {"buf0", "buf1"} :
       /\ current = r
       /\ next = IF r = "buf0" THEN "buf1" ELSE "buf0"
       /\ buf0 = IF r = "buf0" THEN ToBuf(g, ZeroBuf)
                 ELSE update_borders(ToBuf(Glider(1, 1), ZeroBuf))
       /\ buf1 = IF r = "buf1" THEN ToBuf(g, ZeroBuf)
                 ELSE update_borders(ToBuf(Glider(1, 1), ZeroBuf))
       /\ screenBuf = build_screen_from_current(ToBuf(g, ZeroBuf))
       /\ screen = update_display(build_screen_from_current(ToBuf(g, ZeroBuf)))
       /\ gen = IF r = "buf0" THEN 0 ELSE 1
       /\ run = IF r = "buf0" THEN 0 ELSE 1
       /\ old = g
       /\ seed0 = g
  /\ kb = FALSE
  /\ keys = 0
  /\ oob = FALSE
  /\ stamp = <<0, 0, "none">>
  /\ phases = <<>>

NextEdit ==
  \/ EditToggle \/ EditClearAll \/ EditClearRow \/ EditMove \/ EditOther
  \/ EditEnter

SpecEdit == InitEdit /\ [][NextEdit]_vars

\* ================================================================ properties
\* Conway's rule on the torus, computed on the logical grid g with modular
\* coordinates and no border
TorusCount(g, x, y) ==
  LET at(dx, dy) == g[((y + dy + HEIGHT) % HEIGHT) * WIDTH + ((x + dx + WIDTH) % WIDTH)]
  IN at(0 - 1, 0 - 1) + at(0, 0 - 1) + at(1, 0 - 1) + at(0 - 1, 0) + at(1, 0)
       + at(0 - 1, 1) + at(0, 1) + at(1, 1)

LifeCell(g, x, y) ==
  LET n == TorusCount(g, x, y)
  IN IF n = 3 \/ (g[y * WIDTH + x] = 1 /\ n = 2) THEN 1 ELSE 0

Life(g) == [k \in ScreenCells |-> LifeCell(g, k % WIDTH, k \div WIDTH)]

\* C1: after update_borders and calc_next_gen, every logical cell of 'next'
\* holds Conway's rule applied on the torus to the old generation, whatever
\* the border of 'current' and the whole of 'next' held before.
C1_StepIsLifeOnTorus ==
  pc = "u_swap" => Logical(Buf(next)) = Life(old)

C1_Witness ==
  /\ pc = "u_swap"
  /\ \E k \in ScreenCells : old[k] = 1 /\ Logical(Buf(next))[k] = 0
  /\ \E k \in ScreenCells : old[k] = 0 /\ Logical(Buf(next))[k] = 1
  /\ old[0] = 1 /\ old[WIDTH - 1] = 1 /\ TorusCount(old, 0, 0) = 3

\* C2: the rule applied is exactly B3/S23.  The tables hold 1 only at 2 and 3
\* (alive) and only at 3 (dead), and after a step every cell of 'next' is what
\* that rule gives for the cell's own state and the sum of the eight cells
\* around it in 'current' as the step found them.
PhysCount(b, y, x) ==
  LET at(dy, dx) == b[IDX(y + dy, x + dx)]
  IN at(0 - 1, 0 - 1) + at(0 - 1, 0) + at(0 - 1, 1) + at(0, 0 - 1) + at(0, 1)
       + at(1, 0 - 1) + at(1, 0) + at(1, 1)

B3S23(alive, n) ==
  IF alive THEN (IF n \in {2, 3} THEN 1 ELSE 0) ELSE (IF n = 3 THEN 1 ELSE 0)

C2_RuleIsB3S23 ==
  /\ \A n \in 0 .. 8 :
       /\ next_from_alive[n + 1] = B3S23(TRUE, n)
       /\ next_from_dead[n + 1] = B3S23(FALSE, n)
  /\ Len(next_from_alive) = 9 /\ Len(next_from_dead) = 9
  /\ pc = "u_swap" =>
       \A y \in 1 .. HEIGHT, x \in 1 .. WIDTH :
         Buf(next)[IDX(y, x)] =
           B3S23(Buf(current)[IDX(y, x)] = 1, PhysCount(Buf(current), y, x))

\* a step in which a cell is born on 3, a live cell survives on 2 and on 3,
\* a live cell dies of 1 and of 4, and a dead cell stays dead on 2 and on 4
C2_Witness ==
  /\ pc = "u_swap"
  /\ \A c \in {<<0, 3>>, <<1, 2>>, <<1, 3>>, <<1, 1>>, <<1, 4>>, <<0, 2>>, <<0, 4>>} :
       \E y \in 1 .. HEIGHT, x \in 1 .. WIDTH :
         /\ Buf(current)[IDX(y, x)] = c[1]
         /\ PhysCount(Buf(current), y, x) = c[2]

\* C3: after update_borders, whatever the buffer held, each border cell
\* equals the cell one period away: rows 0 and H+1 copy rows H and 1 over all
\* W+2 columns, columns 0 and W+1 copy columns W and 1 over the inner rows,
\* and the four corners equal the diagonally opposite interior corners.
Mirrored(b) ==
  /\ \A c \in 0 .. WIDTH + 1 :
       /\ b[IDX(0, c)] = b[IDX(HEIGHT, c)]
       /\ b[IDX(HEIGHT + 1, c)] = b[IDX(1, c)]
  /\ \A r \in 1 .. HEIGHT :
       /\ b[IDX(r, 0)] = b[IDX(r, WIDTH)]
       /\ b[IDX(r, WIDTH + 1)] = b[IDX(r, 1)]
  /\ b[IDX(0, 0)] = b[IDX(HEIGHT, WIDTH)]
  /\ b[IDX(0, WIDTH + 1)] = b[IDX(HEIGHT, 1)]
  /\ b[IDX(HEIGHT + 1, 0)] = b[IDX(1, WIDTH)]
  /\ b[IDX(HEIGHT + 1, WIDTH + 1)] = b[IDX(1, 1)]

C3_BordersMirrored ==
  pc = "u_calc" => Mirrored(Buf(current)) /\ Logical(Buf(current)) = old

\* the four corners of the mirrored buffer are not all alike
C3_Witness ==
  /\ pc = "u_calc"
  /\ Buf(current)[IDX(0, 0)] = 1
  /\ Buf(current)[IDX(0, WIDTH + 1)] = 0
  /\ Buf(current)[IDX(HEIGHT + 1, 0)] = 0
  /\ Buf(current)[IDX(HEIGHT + 1, WIDTH + 1)] = 1

\* C4: after calc_next_gen and before the swap, screenBuf[y*W+x] is the live
\* glyph when the cell (y+1, x+1) of 'next' is alive and the blank otherwise.
C4_ScreenBufIsNext ==
  pc = "u_swap" =>
    \A y \in 0 .. HEIGHT - 1, x \in 0 .. WIDTH - 1 :
      screenBuf[y * WIDTH + x] =
        IF Buf(next)[IDX(y + 1, x + 1)] = 1 THEN LIVE_CHAR ELSE DEAD_CHAR

\* a step whose frame differs from the frame of the generation it read
C4_Witness ==
  /\ pc = "u_swap"
  /\ \E k \in ScreenCells : screenBuf[k] = LIVE_CHAR /\ old[k] = 0
  /\ \E k \in ScreenCells : screenBuf[k] = DEAD_CHAR /\ old[k] = 1

\* the state right after the swap that ends generation g of a run of the step
AfterGen(g) == gen = g /\ pc \in {"u_borders", "u_done"}

\* C7: a 2 x 2 block at any anchor of the torus, also across an edge or a
\* corner, is unchanged by one generation (mirror, step, swap).
C7_BlockIsStill ==
  AfterGen(1) =>
    \A a \in 0 .. WIDTH - 1, b \in 0 .. HEIGHT - 1 :
      seed0 = Block(a, b) => Logical(Buf(current)) = seed0

\* the block laid over the four corners of the grid, one generation later
C7_Witness ==
  /\ AfterGen(1)
  /\ seed0 = Block(WIDTH - 1, HEIGHT - 1)
  /\ Buf(current)[IDX(1, 1)] = 1 /\ Buf(current)[IDX(HEIGHT, WIDTH)] = 1

\* C8: three live cells in a row, centred on (x, y) of the torus, become
\* exactly the three cells of the column through (x, y) after one generation
\* and exactly the original three after two.
C8_BlinkerOscillates ==
  (AfterGen(1) \/ AfterGen(2)) =>
    \A x \in 0 .. WIDTH - 1, y \in 0 .. HEIGHT - 1 :
      seed0 = BlinkerH(x, y) =>
        /\ AfterGen(1) => Logical(Buf(current)) = BlinkerV(x, y)
        /\ AfterGen(2) => Logical(Buf(current)) = BlinkerH(x, y)

\* the blinker centred on the corner cell (0, 0), two generations later
C8_Witness ==
  /\ AfterGen(2)
  /\ seed0 = BlinkerH(0, 0)
  /\ Buf(current)[IDX(1, WIDTH)] = 1 /\ Buf(current)[IDX(1, 2)] = 1

\* C9: the five cells of the glider at any anchor of the torus are, after 4
\* generations, exactly the glider anchored one cell further right and down.
C9_GliderTranslates ==
  AfterGen(4) =>
    \A a \in 0 .. WIDTH - 1, b \in 0 .. HEIGHT - 1 :
      seed0 = Glider(a, b) =>
        Logical(Buf(current)) = Glider((a + 1) % WIDTH, (b + 1) % HEIGHT)

\* the glider that starts across the right and bottom edges, 4 generations on
C9_Witness ==
  /\ AfterGen(4)
  /\ seed0 = Glider(WIDTH - 2, HEIGHT - 2)
  /\ Logical(Buf(current)) # seed0

\* C10: draw_preset on a cleared grid sets exactly the pattern cells whose
\* physical coordinate lies in 1..W x 1..H; a point outside is dropped and
\* writes nothing, neither in the interior, nor in the border, nor in the
\* other buffer; screenBuf has the live glyph at exactly the cells set.
StampedCells(y0, x0, pts) ==
  {IDX(y0 + pts[i][2], x0 + pts[i][1]) :
     i \in {j \in 1 .. Len(pts) :
              /\ y0 + pts[j][2] - 1 \in 0 .. HEIGHT - 1
              /\ x0 + pts[j][1] - 1 \in 0 .. WIDTH - 1}}

C10_StampClips ==
  pc = "u_stamped" =>
    LET S == StampedCells(stamp[1], stamp[2], PresetPts(stamp[3]))
    IN /\ \A i \in Cells : Buf(current)[i] = IF i \in S THEN 1 ELSE 0
       /\ \A y \in 0 .. HEIGHT - 1, x \in 0 .. WIDTH - 1 :
            screenBuf[y * WIDTH + x] =
              IF IDX(y + 1, x + 1) \in S THEN LIVE_CHAR ELSE DEAD_CHAR
       /\ \E k \in 0 .. 3 : Buf(next) = Stale(k)
       /\ DOMAIN buf0 = Cells /\ DOMAIN buf1 = Cells /\ DOMAIN screenBuf = ScreenCells

\* a glider stamped over the top-left corner: some points land, some are dropped
C10_Witness ==
  /\ pc = "u_stamped"
  /\ stamp = <<0, 0, "glider">>
  /\ Buf(current)[IDX(1, 2)] = 1 /\ Buf(current)[IDX(2, 1)] = 1
  /\ Cardinality({i \in Cells : Buf(current)[i] = 1}) = 3

\* C5: a cycle of the simulation loop is display, borders, calc, swap, each
\* once and in this order, and the key is polled once, after the swap; the
\* loop is left only by that poll, so a run that has ended has completed a
\* cycle, also when a key was waiting as the loop was entered.
LoopOrder == <<"display", "borders", "calc", "swap", "poll">>

C5_CycleOrder ==
  /\ pc = "display" => phases = <<>>
  /\ pc = "borders" => phases = SubSeq(LoopOrder, 1, 1)
  /\ pc = "calc" => phases = SubSeq(LoopOrder, 1, 2)
  /\ pc = "swap" => phases = SubSeq(LoopOrder, 1, 3)
  /\ pc = "poll" => phases = SubSeq(LoopOrder, 1, 4)
  /\ (run > 0 /\ pc \in {"menu", "presets", "editor", "prepare", "exit"}) =>
       phases = LoopOrder /\ gen >= run

\* the first run, left after its first cycle
C5_Witness ==
  /\ pc = "menu"
  /\ run = 1
  /\ gen = 1
  /\ phases = LoopOrder

\* C6: whenever the loop presents, screenBuf is the whole frame of the buffer
\* that is 'current' at that moment; the presentation copies it to the screen
\* and changes neither cell buffer, neither pointer, nor screenBuf.
FrameOf(b) ==
  [k \in ScreenCells |-> IF Logical(b)[k] = 1 THEN LIVE_CHAR ELSE DEAD_CHAR]

C6_PresentsCurrent ==
  [][(pc = "display" /\ pc' = "borders") =>
       /\ screenBuf = FrameOf(Buf(current))
       /\ screen' = FrameOf(Buf(current))
       /\ buf0' = buf0 /\ buf1' = buf1
       /\ current' = current /\ next' = next
       /\ screenBuf' = screenBuf]_vars

\* a frame of live and dead cells presented from buf1 in a second run
C6_Witness ==
  /\ pc = "borders"
  /\ run = 2
  /\ current = "buf1"
  /\ \E k \in ScreenCells : screen[k] = LIVE_CHAR
  /\ \E k \in ScreenCells : screen[k] = DEAD_CHAR


\* C11: the poll that sees the key leaves the loop for the menu with both
\* cell buffers, both pointers and screenBuf as the swap of that cycle left
\* them; nothing of the loop runs after it: in the menu the last step taken
\* is the poll and 'current' still holds the generation the swap made current.
C11_StopKeepsGrid ==
  /\ [][(pc = "poll" /\ kb /\ pc' # pc) =>
          /\ pc' = "menu"
          /\ buf0' = buf0 /\ buf1' = buf1
          /\ current' = current /\ next' = next
          /\ screenBuf' = screenBuf]_vars
  /\ []((pc = "menu" /\ run > 0) =>
          /\ phases = LoopOrder
          /\ Logical(Buf(current)) = old
          /\ screenBuf = FrameOf(Buf(current)))

\* the first run stopped after two cycles, live cells in 'current'
C11_Witness ==
  /\ pc = "menu"
  /\ run = 1
  /\ gen = 2
  /\ current = "buf0"
  /\ \E k \in ScreenCells : Logical(Buf(current))[k] = 1


\* C12: 'current' and 'next' always designate the two different buffers buf0
\* and buf1; the pointers change only in the swap, which exchanges them and
\* changes no cell, once per generation and after calc_next_gen has written
\* every logical cell of 'next'; two swaps restore the assignment, so
\* 'current' is buf0 exactly after an even number of swaps.
C12_TwoRoles ==
  /\ [](/\ current # next
        /\ {current, next} = {"buf0", "buf1"}
        /\ current = IF gen % 2 = 0 THEN "buf0" ELSE "buf1")
  /\ [][(pc = "swap" /\ pc' # pc) =>
          /\ current' = next /\ next' = current
          /\ buf0' = buf0 /\ buf1' = buf1
          /\ gen' = gen + 1
          /\ phases = SubSeq(LoopOrder, 1, 3)
          /\ Logical(Buf(next)) = Life(old)]_vars
  /\ [][(current' # current \/ next' # next \/ gen' # gen) => pc = "swap"]_vars

\* back on buf0 after the second swap, in a second run
C12_Witness ==
  /\ pc = "poll"
  /\ gen = 2
  /\ run = 2
  /\ current = "buf0"
  /\ next = "buf1"
  /\ buf0 # buf1


\* C13: update_borders changes border cells of 'current' only: its interior,
\* the whole of 'next' and screenBuf stay.  calc_next_gen leaves the whole of
\* 'current' and the border of 'next' as they are; what it writes, the
\* interior of 'next' and screenBuf, is determined by the cells of 'current'
\* alone, whatever 'next' held.
NewBuf(p) == IF p = "buf0" THEN buf0' ELSE buf1'

C13_FrameOfPhases ==
  [][/\ (pc = "u_borders" /\ pc' = "u_calc") =>
          /\ \A i \in Cells :
               IsInterior(i) => NewBuf(current)[i] = Buf(current)[i]
          /\ NewBuf(next) = Buf(next)
          /\ screenBuf' = screenBuf
          /\ current' = current /\ next' = next
     /\ (pc = "u_calc" /\ pc' = "u_swap") =>
          /\ NewBuf(current) = Buf(current)
          /\ \A i \in Cells :
               ~IsInterior(i) => NewBuf(next)[i] = Buf(next)[i]
          /\ \A y \in 1 .. HEIGHT, x \in 1 .. WIDTH :
               /\ NewBuf(next)[IDX(y, x)] =
                    B3S23(Buf(current)[IDX(y, x)] = 1, PhysCount(Buf(current), y, x))
               /\ screenBuf'[(y - 1) * WIDTH + (x - 1)] =
                    IF NewBuf(next)[IDX(y, x)] = 1 THEN LIVE_CHAR ELSE DEAD_CHAR
          /\ current' = current /\ next' = next]_vars

\* after the first step: the stale border of 'next' is still there around a
\* written interior, and 'current' has a mirrored border of both values
C13_Witness ==
  /\ pc = "u_swap"
  /\ gen = 0
  /\ \A i \in Cells : ~IsInterior(i) => Buf(next)[i] = 1
  /\ \E i \in Cells : IsInterior(i) /\ Buf(next)[i] = 0
  /\ Buf(current)[IDX(0, 0)] = 1
  /\ Buf(current)[IDX(0, 1)] = 0


\* C14: whenever calc_next_gen starts, in a first or a later run, after
\* seeding, editing or stamping and with either buffer as 'current', every
\* border cell of 'current' equals its toroidal counterpart: update_borders
\* was the step just before, on this buffer, and the interior is still the
\* generation the cycle started with.
C14_MirroredAtCalc ==
  pc = "calc" =>
    /\ Mirrored(Buf(current))
    /\ phases = SubSeq(LoopOrder, 1, 2)
    /\ Logical(Buf(current)) = old

\* a second run about to step buf1, a live corner in its border
C14_Witness ==
  /\ pc = "calc"
  /\ run = 2
  /\ current = "buf1"
  /\ Buf(current)[IDX(0, 0)] = 1
  /\ Buf(current)[IDX(HEIGHT, WIDTH)] = 1


\* C15: the step does not depend on the order of the cells.  Run over the
\* cells backwards or column by column, the loop body leaves the same 'next'
\* and the same screenBuf as the row-major loop; and the body for any one
\* cell, run first or run again after all the others, writes that cell only,
\* with the same value.  Checked for the first two steps of every drawn grid:
\* 'next' holds a stale filling at the first and the previous generation at
\* the second.
NCells == WIDTH * HEIGHT

Backwards == [i \in 1 .. NCells |-> NCells - i]
ColumnMajor == [i \in 1 .. NCells |-> ((i - 1) % HEIGHT) * WIDTH + ((i - 1) \div HEIGHT)]

Orders == {Backwards, ColumnMajor}

C15_AnyOrder ==
  (pc = "u_calc" /\ gen <= 1) =>
    \A cur \in {Buf(current)} :
    \A st0 \in {[nxt |-> Buf(next), sb |-> screenBuf, oob |-> FALSE]} :
    \A full \in {calc_next_gen(cur, st0.nxt, st0.sb)} :
       /\ \A o \in Orders :
            /\ {o[i] : i \in 1 .. NCells} = ScreenCells
            /\ CalcOrder(cur, st0, o, 1) = full
       /\ \A k \in ScreenCells :
            \A one \in {CalcCell(cur, st0, k)} :
            \A c \in {IDX((k \div WIDTH) + 1, (k % WIDTH) + 1)} :
               /\ CalcCell(cur, full, k) = full
               /\ one.nxt = [st0.nxt EXCEPT ![c] = full.nxt[c]]
               /\ one.sb = [st0.sb EXCEPT ![k] = full.sb[k]]

\* a step about to run on a grid the stale 'next' differs from, cells to be
\* born and cells to die
C15_Witness ==
  /\ pc = "u_calc"
  /\ gen = 1
  /\ \E k \in ScreenCells : old[k] = 1 /\ Life(old)[k] = 0
  /\ \E k \in ScreenCells : old[k] = 0 /\ Life(old)[k] = 1
  /\ Logical(Buf(next)) # Life(old)
  /\ Logical(Buf(next)) # old


\* C16: cells are binary and the table index is bounded.  In every state the
\* program reaches, every cell of both buffers, border included, holds 0 or
\* 1; no step has met a neighbour sum above 8; and when a step is about to
\* run, the sum of the eight neighbours of every interior cell, taken without
\* the 8-bit wrap, is within 0..8, the index range of the two rule tables.
C16_BinaryCells ==
  /\ \A i \in Cells : buf0[i] \in {0, 1} /\ buf1[i] \in {0, 1}
  /\ ~oob
  /\ pc = "calc" =>
       \A y \in 1 .. HEIGHT, x \in 1 .. WIDTH :
         /\ PhysCount(Buf(current), y, x) \in 0 .. 8
         /\ PhysCount(Buf(current), y, x) + 1 \in DOMAIN next_from_alive
         /\ PhysCount(Buf(current), y, x) + 1 \in DOMAIN next_from_dead
         /\ neighbours(Buf(current), y * BWIDTH, x) = PhysCount(Buf(current), y, x)


\* the second run, seeded all alive: the borders mirrored, every interior
\* cell has the largest sum, 8, and the other buffer still holds cells of the
\* run before
C16_Witness ==
  /\ pc = "calc" /\ run = 2 /\ gen >= 1
  /\ \A i \in Cells : Buf(current)[i] = 1
  /\ \A y \in 1 .. HEIGHT, x \in 1 .. WIDTH :
       neighbours(Buf(current), y * BWIDTH, x) = 8
  /\ \E i \in Cells : Buf(next)[i] = 1


\* C17: bounded response to the stop key.  While a key waits, the loop only
\* moves forward through what is left of its cycle, display, borders, calc,
\* swap, poll, and from the poll to the menu, the key staying pending until
\* the poll consumes it: at most one swap runs after the key came.  With no
\* key waiting the poll starts the next cycle.  Every cycle that is begun
\* reaches its poll; the poll does not wait (below the bound on generations
\* it always moves on); and a key waiting while the loop runs leads to the
\* menu with the key consumed.  The steps that fairness is assumed of are
\* exactly the statements of the loop.
InLoop == pc \in {"display", "borders", "calc", "swap", "poll"}

AfterPhase(p) ==
  CASE p = "display" -> "borders"
    [] p = "borders" -> "calc"
    [] p = "calc" -> "swap"
    [] p = "swap" -> "poll"
    [] p = "poll" -> "menu"

C17_StopResponse ==
  /\ [][<<LoopAdvance>>_pc <=> <<LoopStep>>_vars]_vars
  /\ [][(InLoop /\ kb) =>
          /\ pc' = pc \/ pc' = AfterPhase(pc)
          /\ gen' = gen \/ (pc = "swap" /\ gen' = gen + 1)
          /\ kb' \/ (pc = "poll" /\ pc' = "menu")]_vars
  /\ [][(pc = "poll" /\ ~kb /\ pc' # pc) =>
          pc' = "display" /\ ~kb' /\ phases' = <<>>]_vars
  /\ (pc \in {"display", "borders", "calc", "swap"}) ~> (pc = "poll")
  /\ (pc = "poll" /\ (kb \/ gen < MaxGen)) ~> (pc \in {"menu", "display"})
  /\ (InLoop /\ kb) ~> (pc = "menu" /\ ~kb)

\* a key that came in the middle of the third cycle, waiting at its poll
C17_Witness ==
  /\ pc = "poll" /\ kb
  /\ gen = 3
  /\ phases = SubSeq(LoopOrder, 1, 4)


\* C18: the editor keeps grid and display in step and leaves the border
\* alone.  While the editor runs the cursor is within columns 1..WIDTH and
\* rows 1..HEIGHT and screenBuf and the screen show 'current'.  A cursor key
\* moves the cursor one cell along its row or column, off one edge onto the
\* opposite one, and changes nothing else.  SPACE flips the interior cell
\* under the cursor and no other cell of 'current'; C zeroes the WIDTH
\* interior cells of the cursor row and no other cell, so neither writes a
\* border cell; no key writes the other buffer or makes a border cell alive.
\* On ENTER the editor ends with the live glyph in screenBuf at exactly the
\* logical cells alive in 'current', the dead glyph elsewhere, and the grid
\* as the last key left it.
Wrap1(v, d, n) == ((v - 1 + d + n) % n) + 1

C18_EditorInStep ==
  /\ [](pc = "editor" =>
          /\ cx \in 1 .. WIDTH /\ cy \in 1 .. HEIGHT
          /\ screenBuf = FrameOf(Buf(current))
          /\ screen = screenBuf
          /\ \A i \in Cells : ~IsInterior(i) => Buf(current)[i] = 0)
  /\ [][pc = "editor" => NewBuf(next) = Buf(next) /\ current' = current]_vars
  /\ [][EditMove =>
          /\ \/ cx' = cx /\ cy' \in {Wrap1(cy, 1, HEIGHT), Wrap1(cy, 0 - 1, HEIGHT)}
             \/ cy' = cy /\ cx' \in {Wrap1(cx, 1, WIDTH), Wrap1(cx, 0 - 1, WIDTH)}
          /\ NewBuf(current) = Buf(current)
          /\ screenBuf' = screenBuf /\ screen' = screen]_vars
  /\ [][(pc = "editor" /\ (cx' # cx \/ cy' # cy)) => EditMove \/ EditEnter]_vars
  /\ [][EditToggle =>
          /\ IsInterior(IDX(cy, cx))
          /\ \A i \in Cells :
               NewBuf(current)[i] =
                 IF i = IDX(cy, cx) THEN 1 - Buf(current)[i] ELSE Buf(current)[i]
          /\ cx' = cx /\ cy' = cy]_vars
  /\ [][EditClearRow =>
          /\ \A i \in Cells :
               NewBuf(current)[i] =
                 IF i \div BWIDTH = cy /\ IsInterior(i) THEN 0
                 ELSE Buf(current)[i]
          /\ cx' = cx /\ cy' = cy]_vars
  /\ [][EditEnter =>
          /\ pc' = "prepare"
          /\ NewBuf(current) = Buf(current)
          /\ \A k \in ScreenCells :
               /\ screenBuf'[k] = LIVE_CHAR <=> Logical(Buf(current))[k] = 1
               /\ screenBuf'[k] = DEAD_CHAR <=> Logical(Buf(current))[k] = 0
          /\ screen' = screenBuf']_vars

\* from an empty grid with the cursor in the last cell: SPACE made that cell
\* alive, next to the border, and cursor right wrapped to column 1
C18_Witness ==
  /\ pc = "editor" /\ keys = 2
  /\ seed0 = [k \in ScreenCells |-> 0]
  /\ cx = 1 /\ cy = HEIGHT
  /\ \A i \in Cells : Buf(current)[i] = IF i = IDX(HEIGHT, WIDTH) THEN 1 ELSE 0
  /\ screenBuf[WIDTH * HEIGHT - 1] = LIVE_CHAR

====
